---- MODULE Spec2Model ----
(***************************************************************************)
(* A model of ts-ascii-engine: the AsciiGenerator class                    *)
(* (src/core/ascii-engine.ts), the canvas helpers                          *)
(* (src/utils/canvas-helpers.ts) and the preset table                      *)
(* (src/types/interfaces.ts).                                              *)
(*                                                                         *)
(* Representation.                                                         *)
(*  - A JavaScript string is a sequence of one-character strings; a        *)
(*    character outside ASCII, and the grave accent, is written by its     *)
(*    code point ("U2588", "U0060").                                       *)
(*  - An error message is the sequence of its words, a template            *)
(*    substitution ${...} being one word; message.includes(s) is           *)
(*    Includes(message, words of s).                                       *)
(*  - An optional number is <<>> (undefined) or <<n>>.                     *)
(*  - A partial configuration is [has |-> the fields present, val |-> a    *)
(*    full record]; val's fields outside has are never read.               *)
(*  - aspectRatio is an exact fraction [n, d] with d > 0, and luminance    *)
(*    is counted in thousandths; the quotients of calculateDimensions and  *)
(*    the channel means of samplePixelColor are computed exactly.  The     *)
(*    glyph index of luminanceToChar and the cell bounds of                *)
(*    samplePixelColor are computed in IEEE-754 doubles, as the source     *)
(*    computes them: a double is a significand, written as its bits from   *)
(*    the lowest up, and a binary exponent, and every operation rounds to  *)
(*    nearest, ties to even.  On the inputs enumerated below the grid      *)
(*    dimensions, the cell bounds and the glyph indices agree with the     *)
(*    double evaluation of the source expressions.                         *)
(*  - A value returned by getConfig is held with a mark telling whether it *)
(*    is the generator's own object or a copy of it.                       *)
(*  - A conversion result is held as the arguments processPixelData was    *)
(*    called with; Characters, Colors, Text, Html and Metadata compute its *)
(*    fields from them.                                                    *)
(***************************************************************************)
EXTENDS Integers, Sequences, FiniteSets, TLC

VARIABLES
  gen,       \* "none": no generator object exists; "live": one does
  config,    \* AsciiGenerator.config
  charset,   \* AsciiGenerator.charset, the resolved glyph ramp
  last,      \* the most recent call on the generator and its outcome
  calls,     \* number of calls made so far
  fcall,     \* the most recent direct call of an exported helper
  fret,      \* and what it returned
  memo,      \* the first convertImage call made, and what followed it
  snapshot,  \* the object a getConfig call returned, as its caller holds it
  inbox,     \* the messages the example worker has received, in order
  handled,   \* how many of them its onmessage handler has run for
  outbox     \* the responses the worker has posted, in order

vars ==
  <<gen, config, charset, last, calls, fcall, fret, memo, snapshot, inbox,
    handled, outbox>>

----------------------------------------------------------------------------
(* Bounds of the model *)

MaxCalls == 4
MaxGridCells == 6

----------------------------------------------------------------------------
(* types/interfaces.ts *)

PresetBLOCK == <<"B", "L", "O", "C", "K">>
PresetSTANDARD == <<"S", "T", "A", "N", "D", "A", "R", "D">>
PresetMINIMAL == <<"M", "I", "N", "I", "M", "A", "L">>
PresetEXTENDED == <<"E", "X", "T", "E", "N", "D", "E", "D">>
PresetCUSTOM == <<"C", "U", "S", "T", "O", "M">>

CharsetPreset ==
  {PresetBLOCK, PresetSTANDARD, PresetMINIMAL, PresetEXTENDED, PresetCUSTOM}

RampBLOCK == <<"U2588", "U2588", "U2593", "U2592", "U2591", " ">>
RampSTANDARD == <<"@", "%", "#", "*", "+", "=", "-", ":", ".", " ">>
RampMINIMAL == <<"@", "+", ".", " ">>
RampEXTENDED ==
  << "$", "@", "B", "%", "8", "&", "W", "M", "#", "*", "o", "a", "h", "k",
     "b", "d", "p", "q", "w", "m", "Z", "O", "0", "Q", "L", "C", "J", "U",
     "Y", "X", "z", "c", "v", "u", "n", "x", "r", "j", "f", "t", "/", "\\",
     "|", "(", ")", "1", "{", "}", "[", "]", "?", "-", "_", "+", "~", "<",
     ">", "i", "!", "l", "I", ";", ":", ",", "\"", "^", "U0060", "'", ".", " " >>

CHARSET_MAP(preset) ==
  CASE preset = PresetBLOCK -> RampBLOCK
    [] preset = PresetSTANDARD -> RampSTANDARD
    [] preset = PresetMINIMAL -> RampMINIMAL
    [] preset = PresetEXTENDED -> RampEXTENDED

----------------------------------------------------------------------------
(* Strings and messages *)

\* s.includes(sub) on sequences
Includes(s, sub) ==
  \E i \in 0..(Len(s) - Len(sub)) :
    \A j \in 1..Len(sub) : s[i + j] = sub[j]

NoError == <<>>

ErrCustomPreset ==
  <<"CUSTOM", "preset", "requires", "a", "custom", "charset", "string">>
ErrOnlyInvalid ==
  <<"Custom", "charset", "contains", "only", "invalid", "characters.",
    "Characters", "<,", ">,", "',", "\",", "&,", "and", "U0060", "are", "not",
    "allowed.">>
ErrInvalidCharset == <<"Invalid", "charset", "configuration">>
ErrCharsetEmpty == <<"Charset", "cannot", "be", "empty">>
ErrAspect == <<"Aspect", "ratio", "must", "be", "positive">>
ErrNegative == <<"Width", "and", "height", "must", "be", "non-negative">>
ErrWidth == <<"Width", "exceeds", "maximum", "allowed", "(10000)">>
ErrHeight == <<"Height", "exceeds", "maximum", "allowed", "(10000)">>
ErrTotalChars ==
  <<"Total", "character", "count", "(${totalChars})", "exceeds", "maximum",
    "allowed", "(25000000)">>

----------------------------------------------------------------------------
(* AsciiGenerator: configuration *)

Fields ==
  {"charset", "inverted", "colored", "aspectRatio", "width", "height",
   "optimized"}

Ratio(n, d) == [n |-> n, d |-> d]

\* the defaults applied by the constructor
Defaults ==
  [charset |-> PresetSTANDARD, inverted |-> FALSE, colored |-> FALSE,
   aspectRatio |-> Ratio(11, 20), width |-> 0, height |-> 0,
   optimized |-> TRUE]

\* config.f ?? default, for every field f
ApplyDefaults(p) ==
  [f \in Fields |-> IF f \in p.has THEN p.val[f] ELSE Defaults[f]]

\* the characters resolveCharset strips from a custom charset
Dangerous == {"<", ">", "'", "\"", "&", "U0060"}

\* Sanitize with & left off the list of stripped characters
SanitizeKeepAmp(cs) == SelectSeq(cs, LAMBDA c : c \notin Dangerous \ {"&"})

\* Sanitize without the g flag: only the first match is removed
SanitizeFirstOnly(cs) ==
  LET hits == {i \in 1..Len(cs) : cs[i] \in Dangerous}
      first == CHOOSE i \in hits : \A j \in hits : i <= j
  IN IF hits = {} THEN cs
     ELSE SubSeq(cs, 1, first - 1) \o SubSeq(cs, first + 1, Len(cs))

\* charset.replace(..., ''): every character of Dangerous is removed
Sanitize(cs) == SelectSeq(cs, LAMBDA c : c \notin Dangerous)

Thrown(msg) == [ok |-> FALSE, value |-> <<>>, error |-> msg]
Returned(v) == [ok |-> TRUE, value |-> v, error |-> NoError]

\* ResolveCharset without the CUSTOM test: the name is taken as a literal ramp
ResolveCharsetCustomLiteral(cs) ==
  IF cs \in CharsetPreset \ {PresetCUSTOM}
    THEN Returned(CHARSET_MAP(cs))
    ELSE IF Len(cs) > 0
           THEN IF Len(Sanitize(cs)) = 0
                  THEN Thrown(ErrOnlyInvalid)
                  ELSE Returned(Sanitize(cs))
           ELSE Thrown(ErrInvalidCharset)

ResolveCharset(cs) ==
  IF cs \in CharsetPreset
    THEN IF cs = PresetCUSTOM
           THEN Thrown(ErrCustomPreset)
           ELSE Returned(CHARSET_MAP(cs))
    ELSE IF Len(cs) > 0
           THEN IF Len(Sanitize(cs)) = 0
                  THEN Thrown(ErrOnlyInvalid)
                  ELSE Returned(Sanitize(cs))
           ELSE Thrown(ErrInvalidCharset)

MAX_DIMENSION == 10000
MAX_TOTAL_CHARS == 25000000

\* ValidateConfig, were a total of exactly MAX_TOTAL_CHARS rejected too
ValidateConfigFromLimit(cfg, cs) ==
  IF Len(cs) = 0 THEN ErrCharsetEmpty
  ELSE IF cfg.aspectRatio.n <= 0 THEN ErrAspect
  ELSE IF cfg.width < 0 \/ cfg.height < 0 THEN ErrNegative
  ELSE IF cfg.width > MAX_DIMENSION THEN ErrWidth
  ELSE IF cfg.height > MAX_DIMENSION THEN ErrHeight
  ELSE IF cfg.width > 0 /\ cfg.height > 0
          /\ cfg.width * cfg.height >= MAX_TOTAL_CHARS THEN ErrTotalChars
  ELSE NoError

\* validateConfig: the message of the error it throws, NoError if it returns
ValidateConfig(cfg, cs) ==
  IF Len(cs) = 0 THEN ErrCharsetEmpty
  ELSE IF cfg.aspectRatio.n <= 0 THEN ErrAspect
  ELSE IF cfg.width < 0 \/ cfg.height < 0 THEN ErrNegative
  ELSE IF cfg.width > MAX_DIMENSION THEN ErrWidth
  ELSE IF cfg.height > MAX_DIMENSION THEN ErrHeight
  ELSE IF cfg.width > 0 /\ cfg.height > 0
          /\ cfg.width * cfg.height > MAX_TOTAL_CHARS THEN ErrTotalChars
  ELSE NoError

----------------------------------------------------------------------------
(* utils/canvas-helpers.ts *)

MAX_PIXELS == 25000000

ErrInvalidDims == <<"Source", "has", "invalid", "dimensions", "(0x0)">>
ErrDimension == <<"Dimension", "exceeds", "maximum", "allowed", "(10000)">>
ErrPixels ==
  <<"Total", "pixel", "count", "exceeds", "maximum", "allowed",
    "(25000000)">>
\* the DOMException of getImageData on an empty rectangle, rethrown as it is
ErrIndexSize == <<"IndexSizeError">>
\* the sides of a canvas whose width or height was set to a negative number:
\* the attribute falls back to its default
DefaultCanvasWidth == 300
DefaultCanvasHeight == 150
\* a canvas side set to n
CanvasSide(n, default) == IF n < 0 THEN default ELSE n
ErrRange == <<"Invalid", "array", "length">>

Undefined == <<>>
Some(n) == <<n>>
\* x ?? y
OrElse(opt, y) == IF opt = Undefined THEN y ELSE opt[1]
\* x || undefined
OrUndefined(n) == IF n = 0 THEN Undefined ELSE Some(n)
\* if (x): x is given and not zero
Truthy(opt) == opt # Undefined /\ opt[1] # 0

Min(a, b) == IF a < b THEN a ELSE b
Max(a, b) == IF a > b THEN a ELSE b

\* Math.floor(a / b) for integers a, b with b # 0
Floor(a, b) == IF b > 0 THEN a \div b ELSE (0 - a) \div (0 - b)

(* Sources.  An ImageData carries its bytes; a drawable (canvas, image or   *)
(* video element) is painted in one colour, so that what drawImage and      *)
(* getImageData give back at any size is known: every pixel is fill.        *)
ImageData(w, h, bytes) ==
  [kind |-> "ImageData", width |-> w, height |-> h, videoWidth |-> 0,
   videoHeight |-> 0, data |-> bytes, fill |-> <<0, 0, 0, 0>>]
Canvas(w, h, rgba) ==
  [kind |-> "canvas", width |-> w, height |-> h, videoWidth |-> 0,
   videoHeight |-> 0, data |-> <<>>, fill |-> rgba]
Video(w, h, vw, vh, rgba) ==
  [kind |-> "video", width |-> w, height |-> h, videoWidth |-> vw,
   videoHeight |-> vh, data |-> <<>>, fill |-> rgba]

\* Uint8ClampedArray contents: listed bytes, or w*h pixels of one colour
Bytes(seq) == [kind |-> "bytes", bytes |-> seq, rgba |-> <<0, 0, 0, 0>>,
               length |-> Len(seq)]
Filled(rgba, w, h) == [kind |-> "fill", bytes |-> <<>>, rgba |-> rgba,
                       length |-> w * h * 4]
\* data[i], i counted from 0
DataAt(d, i) ==
  IF d.kind = "bytes" THEN d.bytes[i + 1] ELSE d.rgba[(i % 4) + 1]

PixelData(d, w, h) == [data |-> d, width |-> w, height |-> h]
NoPixelData == PixelData(Bytes(<<>>), 0, 0)

\* how a call ended, and whether it had set the sides of its canvas by then
Sized(sized, result) ==
  [ok |-> result.ok, value |-> result.value, error |-> result.error,
   sized |-> sized]

ExtractPixelData(source, targetWidth, targetHeight) ==
  IF source.kind = "ImageData"
    THEN Sized(FALSE, Returned(PixelData(Bytes(source.data), source.width,
                                         source.height)))
    ELSE
      LET sourceWidth ==
            IF source.kind = "canvas" THEN source.width
            ELSE IF source.width # 0 THEN source.width
            ELSE source.videoWidth
          sourceHeight ==
            IF source.kind = "canvas" THEN source.height
            ELSE IF source.height # 0 THEN source.height
            ELSE source.videoHeight
          finalWidth == OrElse(targetWidth, sourceWidth)
          finalHeight == OrElse(targetHeight, sourceHeight)
      IN IF sourceWidth = 0 \/ sourceHeight = 0
           THEN Sized(FALSE, Thrown(ErrInvalidDims))
         ELSE IF finalWidth > MAX_DIMENSION \/ finalHeight > MAX_DIMENSION
           THEN Sized(FALSE, Thrown(ErrDimension))
         ELSE IF finalWidth * finalHeight > MAX_PIXELS
           THEN Sized(FALSE, Thrown(ErrPixels))
         ELSE LET canvasWidth == CanvasSide(finalWidth, DefaultCanvasWidth)
                  canvasHeight == CanvasSide(finalHeight, DefaultCanvasHeight)
              IN IF canvasWidth = 0 \/ canvasHeight = 0
                   THEN Sized(TRUE, Thrown(ErrIndexSize))
                   ELSE Sized(TRUE,
                              Returned(PixelData(Filled(source.fill,
                                                        canvasWidth,
                                                        canvasHeight),
                                                 canvasWidth, canvasHeight)))

\* CalculateLuminance, were the blue channel left out
CalculateLuminanceNoBlue(r, g, b) == 299 * r + 587 * g

\* 0.299 r + 0.587 g + 0.114 b, in thousandths
CalculateLuminance(r, g, b) == 299 * r + 587 * g + 114 * b

(* IEEE-754 binary64 arithmetic, as JavaScript numbers compute it, for the   *)
(* operations of luminanceToChar and of the cell bounds of                  *)
(* samplePixelColor.  A double is m * 2^e, m the                            *)
(* sequence of its bits, the least significant first, at most 53 of them    *)
(* significant; results are rounded to the nearest double, ties to the even *)
(* one.  Long division and multiplication work on base-256 digits, the      *)
(* least significant first.                                                 *)
RECURSIVE ValueOf(_)
ValueOf(bits) ==
  IF bits = <<>> THEN 0 ELSE Head(bits) + 2 * ValueOf(Tail(bits))

\* bits without zeros at the high end
Trim(bits) ==
  LET ones == {i \in 1..Len(bits) : bits[i] = 1}
  IN IF ones = {} THEN <<>>
     ELSE SubSeq(bits, 1, CHOOSE i \in ones : \A j \in ones : j <= i)

\* bits + 1
Increment(bits) ==
  LET zeros == {i \in 1..Len(bits) : bits[i] = 0}
      z == CHOOSE i \in zeros : \A j \in zeros : i <= j
  IN IF zeros = {} THEN [i \in 1..Len(bits) |-> 0] \o <<1>>
     ELSE [i \in 1..Len(bits) |->
             IF i < z THEN 0 ELSE IF i = z THEN 1 ELSE bits[i]]

\* the bits of a sequence of base-256 digits
BitsOfDigits(digits) ==
  [j \in 1..(8 * Len(digits)) |->
     (digits[((j - 1) \div 8) + 1] \div (2 ^ ((j - 1) % 8))) % 2]

\* the base-256 digits of a sequence of bits
DigitsOfBits(bits) ==
  LET bit(j) == IF j <= Len(bits) THEN bits[j] ELSE 0
  IN [i \in 1..((Len(bits) + 7) \div 8) |->
        bit(8 * i - 7) + 2 * bit(8 * i - 6) + 4 * bit(8 * i - 5)
        + 8 * bit(8 * i - 4) + 16 * bit(8 * i - 3) + 32 * bit(8 * i - 2)
        + 64 * bit(8 * i - 1) + 128 * bit(8 * i)]

Double(m, e) == [m |-> m, e |-> e]

\* the double nearest to m * 2^e, or to a number strictly between m * 2^e
\* and (m + 1) * 2^e when inexact
RoundToDouble(m, e, inexact) ==
  LET bits == Trim(m)
      drop == Len(bits) - 53
  IN IF drop <= 0 THEN Double(bits, e)
     ELSE LET kept == SubSeq(bits, drop + 1, Len(bits))
              half == bits[drop] = 1
              below == inexact \/ \E i \in 1..(drop - 1) : bits[i] = 1
              up == half /\ (below \/ kept[1] = 1)
          IN Double(IF up THEN Increment(kept) ELSE kept, e + drop)

\* base-256 digits computed below the point: 72 bits, enough for 53
\* significant bits and a rounding bit of any quotient of at least 2^-18
QuotientDigits == 9

RECURSIVE LongDivide(_, _, _, _)
\* long division: n more digits of the quotient q, r the remainder so far
LongDivide(q, r, d, n) ==
  IF n = 0 THEN [q |-> q, r |-> r]
  ELSE LongDivide(<<(256 * r) \div d>> \o q, (256 * r) % d, d, n - 1)

\* the base-256 digits of a natural below 2^31, the lowest first
NaturalDigits(n) ==
  IF n = 0 THEN <<>>
  ELSE IF n < 256 THEN <<n>>
  ELSE IF n < 65536 THEN <<n % 256, n \div 256>>
  ELSE <<n % 256, (n \div 256) % 256, (n \div 65536) % 256, n \div 16777216>>

\* a / d as a double, for naturals a and d > 0
DoubleQuotient(a, d) ==
  LET qr == LongDivide(<<>>, a % d, d, QuotientDigits)
  IN RoundToDouble(BitsOfDigits(qr.q \o NaturalDigits(a \div d)),
                   0 - 8 * QuotientDigits, qr.r # 0)

RECURSIVE TimesSmall(_, _, _)
\* digits * k + carry
TimesSmall(digits, k, carry) ==
  IF digits = <<>>
    THEN (IF carry = 0 THEN <<>>
          ELSE <<carry % 256>> \o TimesSmall(<<>>, k, carry \div 256))
  ELSE LET v == Head(digits) * k + carry
       IN <<v % 256>> \o TimesSmall(Tail(digits), k, v \div 256)

\* x * k as a double, for a natural k < 2^15
DoubleTimes(x, k) ==
  RoundToDouble(BitsOfDigits(TimesSmall(DigitsOfBits(x.m), k, 0)), x.e, FALSE)

\* 1 - x as a double, for 0 <= x < 1: 2^n - m is the complement of m on n
\* bits, plus one
DoubleOneMinus(x) ==
  LET n == 0 - x.e
      complement == [i \in 1..n |-> IF i <= Len(x.m) THEN 1 - x.m[i] ELSE 1]
  IN RoundToDouble(Increment(complement), x.e, FALSE)

\* Math.floor(x) for 0 <= x < 2^53
DoubleFloor(x) ==
  IF 0 - x.e >= Len(x.m) THEN 0
  ELSE ValueOf(SubSeq(x.m, 1 - x.e, Len(x.m)))

\* LuminanceIndex with the length of the ramp as the factor, not length - 1
LuminanceIndexByLength(luminance, len, inverted) ==
  IF luminance <= 0 THEN (IF inverted THEN len - 1 ELSE 0)
  ELSE IF luminance >= 255000 THEN (IF inverted THEN 0 ELSE len - 1)
  ELSE LET normalizedLuminance == DoubleQuotient(luminance, 255000)
           adjustedLuminance ==
             IF inverted THEN DoubleOneMinus(normalizedLuminance)
             ELSE normalizedLuminance
           index == DoubleFloor(DoubleTimes(adjustedLuminance, len))
       IN Max(0, Min(len - 1, index))

(* luminance in thousandths; the index of the glyph, the ramp counted from  *)
(* 0.  A luminance of 0 or less is normalized to 0 or less, one of 255 or   *)
(* more to 1 or more, whatever the rounding; between the two the quotient,  *)
(* the difference and the product are the doubles the code computes.  The   *)
(* three roundings move the product by less than 2^-44, and a product that  *)
(* is not a whole number lies at least 1/255000 from the next one: there    *)
(* the floor of the doubles is the floor of the exact product.              *)
LuminanceIndex(luminance, len, inverted) ==
  IF luminance <= 0 THEN (IF inverted THEN len - 1 ELSE 0)
  ELSE IF luminance >= 255000 THEN (IF inverted THEN 0 ELSE len - 1)
  ELSE LET exact == (IF inverted THEN 255000 - luminance ELSE luminance)
                    * (len - 1)
           normalizedLuminance == DoubleQuotient(luminance, 255000)
           adjustedLuminance ==
             IF inverted THEN DoubleOneMinus(normalizedLuminance)
             ELSE normalizedLuminance
           index ==
             IF exact % 255000 # 0 THEN exact \div 255000
             ELSE DoubleFloor(DoubleTimes(adjustedLuminance, len - 1))
       IN Max(0, Min(len - 1, index))

LuminanceToChar(luminance, cs, inverted) ==
  cs[LuminanceIndex(luminance, Len(cs), inverted) + 1]

\* CalculateDimensions with the two tests in the other order
CalculateDimensionsHeightFirst(sourceWidth, sourceHeight, targetWidth, targetHeight, aspectRatio) ==
  IF Truthy(targetHeight)
    THEN [width |-> Floor(sourceWidth * targetHeight[1] * aspectRatio.d,
                          sourceHeight * aspectRatio.n),
          height |-> targetHeight[1]]
  ELSE IF Truthy(targetWidth)
    THEN [width |-> targetWidth[1],
          height |-> Floor(sourceHeight * targetWidth[1] * aspectRatio.n,
                           sourceWidth * aspectRatio.d)]
  ELSE LET defaultWidth == Min(100, sourceWidth)
       IN [width |-> defaultWidth,
           height |-> Floor(sourceHeight * defaultWidth * aspectRatio.n,
                            sourceWidth * aspectRatio.d)]

\* CalculateDimensions with the aspect ratio correction left out
CalculateDimensionsNoAspect(sourceWidth, sourceHeight, targetWidth, targetHeight, aspectRatio) ==
  IF Truthy(targetWidth)
    THEN [width |-> targetWidth[1],
          height |-> Floor(sourceHeight * targetWidth[1], sourceWidth)]
  ELSE IF Truthy(targetHeight)
    THEN [width |-> Floor(sourceWidth * targetHeight[1], sourceHeight),
          height |-> targetHeight[1]]
  ELSE LET defaultWidth == Min(100, sourceWidth)
       IN [width |-> defaultWidth,
           height |-> Floor(sourceHeight * defaultWidth, sourceWidth)]

CalculateDimensions(sourceWidth, sourceHeight, targetWidth, targetHeight, aspectRatio) ==
  IF Truthy(targetWidth)
    THEN [width |-> targetWidth[1],
          height |-> Floor(sourceHeight * targetWidth[1] * aspectRatio.n,
                           sourceWidth * aspectRatio.d)]
  ELSE IF Truthy(targetHeight)
    THEN [width |-> Floor(sourceWidth * targetHeight[1] * aspectRatio.d,
                          sourceHeight * aspectRatio.n),
          height |-> targetHeight[1]]
  ELSE LET defaultWidth == Min(100, sourceWidth)
       IN [width |-> defaultWidth,
           height |-> Floor(sourceHeight * defaultWidth * aspectRatio.n,
                            sourceWidth * aspectRatio.d)]

RECURSIVE SumChannel(_, _, _, _)
\* the sum of data[index + k] over a set of pixel offsets
SumChannel(d, width, pixels, k) ==
  IF pixels = {} THEN 0
  ELSE LET p == CHOOSE q \in pixels : TRUE
       IN DataAt(d, (p[2] * width + p[1]) * 4 + k)
          + SumChannel(d, width, pixels \ {p}, k)

\* size / grid is a whole number of halves, quarters, ...: being below 2^53
\* in its numerator, it is a double, and so are its small multiples
Dyadic(size, grid) == \E j \in 0..14 : (size * 2 ^ j) % grid = 0

\* Math.floor(k * (size / grid)), the quotient and the product in doubles;
\* no rounding takes place when the quotient is dyadic
CellBound(k, size, grid) ==
  IF k = 0 THEN 0
  ELSE IF Dyadic(size, grid) THEN (k * size) \div grid
  ELSE DoubleFloor(DoubleTimes(DoubleQuotient(size, grid), k))

\* the same with the end column and the end row taken into the cell
SampledPixelsInclusive(pixelData, gridX, gridY, gridWidth, gridHeight) ==
  LET startX == CellBound(gridX, pixelData.width, gridWidth)
      startY == CellBound(gridY, pixelData.height, gridHeight)
      endX == CellBound(gridX + 1, pixelData.width, gridWidth)
      endY == CellBound(gridY + 1, pixelData.height, gridHeight)
  IN {p \in (startX..Min(endX, pixelData.width - 1))
              \X (startY..Min(endY, pixelData.height - 1)) :
        (p[2] * pixelData.width + p[1]) * 4 + 3 < pixelData.data.length}

\* the pixels <<x, y>> samplePixelColor adds up for a grid cell
SampledPixels(pixelData, gridX, gridY, gridWidth, gridHeight) ==
  LET startX == CellBound(gridX, pixelData.width, gridWidth)
      startY == CellBound(gridY, pixelData.height, gridHeight)
      endX == CellBound(gridX + 1, pixelData.width, gridWidth)
      endY == CellBound(gridY + 1, pixelData.height, gridHeight)
  IN {p \in (startX..(Min(endX, pixelData.width) - 1))
              \X (startY..(Min(endY, pixelData.height) - 1)) :
        (p[2] * pixelData.width + p[1]) * 4 + 3 < pixelData.data.length}

SamplePixelColor(pixelData, gridX, gridY, gridWidth, gridHeight) ==
  LET px == SampledPixels(pixelData, gridX, gridY, gridWidth, gridHeight)
      sampleCount == Cardinality(px)
      total(k) == SumChannel(pixelData.data, pixelData.width, px, k)
  IN IF sampleCount = 0 THEN [r |-> 0, g |-> 0, b |-> 0, a |-> 255]
     ELSE [r |-> total(0) \div sampleCount, g |-> total(1) \div sampleCount,
           b |-> total(2) \div sampleCount, a |-> total(3) \div sampleCount]

Digit(n) == <<"0", "1", "2", "3", "4", "5", "6", "7", "8", "9">>[n + 1]

RECURSIVE NumberToString(_)
\* String(n) for an integer n >= 0
NumberToString(n) ==
  IF n < 10 THEN <<Digit(n)>> ELSE NumberToString(n \div 10) \o <<Digit(n % 10)>>

\* (clampedA / 255).toFixed(2); 200 a is even and 255 odd, so no tie arises
AlphaToFixed2(a) ==
  LET hundredths == (200 * a + 255) \div 510
  IN NumberToString(hundredths \div 100)
     \o <<".", Digit((hundredths \div 10) % 10), Digit(hundredths % 10)>>

Clamp255(v) == Max(0, Min(255, v))

RgbToCSS(r, g, b, a) ==
  <<"r", "g", "b", "a", "(">> \o NumberToString(Clamp255(r)) \o <<",">>
  \o NumberToString(Clamp255(g)) \o <<",">> \o NumberToString(Clamp255(b)) \o <<",">>
  \o AlphaToFixed2(Clamp255(a)) \o <<")">>

(* renderTextToCanvas.  A text is known by its length, the only thing the  *)
(* code reads of it.  What the platform does with the font is its answer   *)
(* to measureText, in tenths of a pixel, and the set of pixels fillText    *)
(* paints in the text colour; colours are given as the pixels they paint.  *)
MAX_TEXT_LENGTH == 10000
MAX_FONT_SIZE == 1000

Normal == <<"n", "o", "r", "m", "a", "l">>
Italic == <<"i", "t", "a", "l", "i", "c">>
Oblique == <<"o", "b", "l", "i", "q", "u", "e">>
Bold == <<"b", "o", "l", "d">>

ALLOWED_FONT_STYLES == {Normal, Italic, Oblique}
ALLOWED_FONT_WEIGHTS ==
  {Normal, Bold} \cup {<<Digit(k), "0", "0">> : k \in 1..9}

ErrTextLength ==
  <<"Text", "length", "exceeds", "maximum", "allowed", "(10000)">>
ErrFontSize ==
  <<"Font", "size", "must", "be", "between", "1", "and", "1000">>
ErrFontStyle ==
  <<"Invalid", "font", "style.", "Allowed", "values:", "normal,", "italic,",
    "oblique">>
ErrFontWeight ==
  <<"Invalid", "font", "weight.", "Allowed", "values:", "normal,", "bold,",
    "100,", "200,", "300,", "400,", "500,", "600,", "700,", "800,", "900">>

\* a string | number value
Str(s) == [type |-> "string", s |-> s, n |-> 0]
Num(n) == [type |-> "number", s |-> <<>>, n |-> n]
\* String(v)
StringOf(v) == IF v.type = "string" THEN v.s ELSE NumberToString(v.n)

\* Math.ceil(a / b) for integers a, b with b > 0
Ceil(a, b) == 0 - ((0 - a) \div b)

\* ValidateText, were the font size looked at before the length of the text
ValidateTextSizeFirst(text, fontSize, fontWeight, fontStyle) ==
  IF fontSize > MAX_FONT_SIZE \/ fontSize < 1 THEN ErrFontSize
  ELSE IF text.length > MAX_TEXT_LENGTH THEN ErrTextLength
  ELSE IF fontStyle \notin ALLOWED_FONT_STYLES THEN ErrFontStyle
  ELSE IF StringOf(fontWeight) \notin ALLOWED_FONT_WEIGHTS THEN ErrFontWeight
  ELSE NoError

\* the checks renderTextToCanvas begins with: the message thrown, or NoError
ValidateText(text, fontSize, fontWeight, fontStyle) ==
  IF text.length > MAX_TEXT_LENGTH THEN ErrTextLength
  ELSE IF fontSize > MAX_FONT_SIZE \/ fontSize < 1 THEN ErrFontSize
  ELSE IF fontStyle \notin ALLOWED_FONT_STYLES THEN ErrFontStyle
  ELSE IF StringOf(fontWeight) \notin ALLOWED_FONT_WEIGHTS THEN ErrFontWeight
  ELSE NoError

\* how a call ended, and how many canvas elements it had created by then
After(canvases, result) ==
  [ok |-> result.ok, value |-> result.value, error |-> result.error,
   canvases |-> canvases]

RenderTextToCanvas(text, fontSize, fontWeight, fontStyle, color, backgroundColor, padding, platform) ==
  IF ValidateText(text, fontSize, fontWeight, fontStyle) # NoError
    THEN After(0, Thrown(ValidateText(text, fontSize, fontWeight, fontStyle)))
  ELSE
    LET width ==
          CanvasSide(Ceil(platform.textWidth + 20 * padding, 10),
                     DefaultCanvasWidth)
        \* textHeight = fontSize * 1.5
        height ==
          CanvasSide(Ceil(3 * fontSize + 4 * padding, 2), DefaultCanvasHeight)
        pixels ==
          [i \in 1..(width * height) |->
             IF i \in platform.ink THEN color ELSE backgroundColor]
    IN IF width = 0 \/ height = 0 THEN After(1, Thrown(ErrIndexSize))
       ELSE After(1, Returned(ImageData(width, height,
                                        [j \in 1..(4 * width * height) |->
                                           pixels[((j - 1) \div 4) + 1]
                                                 [((j - 1) % 4) + 1]])))

----------------------------------------------------------------------------
(* AsciiGenerator: HTML serialization *)

\* EscapeChar with the entities of < and > exchanged
EscapeCharSwapped(c) ==
  CASE c = "&" -> <<"&", "a", "m", "p", ";">>
    [] c = "<" -> <<"&", "g", "t", ";">>
    [] c = ">" -> <<"&", "l", "t", ";">>
    [] c = "\"" -> <<"&", "q", "u", "o", "t", ";">>
    [] c = "'" -> <<"&", "#", "0", "3", "9", ";">>
    [] c = "U0060" -> <<"&", "#", "9", "6", ";">>
    [] OTHER -> <<c>>

\* the replacement table of escapeHtml
EscapeChar(c) ==
  CASE c = "&" -> <<"&", "a", "m", "p", ";">>
    [] c = "<" -> <<"&", "l", "t", ";">>
    [] c = ">" -> <<"&", "g", "t", ";">>
    [] c = "\"" -> <<"&", "q", "u", "o", "t", ";">>
    [] c = "'" -> <<"&", "#", "0", "3", "9", ";">>
    [] c = "U0060" -> <<"&", "#", "9", "6", ";">>
    [] OTHER -> <<c>>

RECURSIVE EscapeHtml(_)
EscapeHtml(text) ==
  IF text = <<>> THEN <<>>
  ELSE EscapeChar(Head(text)) \o EscapeHtml(Tail(text))

SpanOpen ==
  <<"<", "s", "p", "a", "n", " ", "s", "t", "y", "l", "e", "=", "\"",
    "c", "o", "l", "o", "r", ":">>
SpanMid == <<"\"", ">">>
SpanClose == <<"<", "/", "s", "p", "a", "n", ">">>
PreStyleColored ==
  <<"s", "t", "y", "l", "e", "=", "\"", "f", "o", "n", "t", "-", "f",
    "a", "m", "i", "l", "y", ":", "m", "o", "n", "o", "s", "p", "a",
    "c", "e", ";", "l", "i", "n", "e", "-", "h", "e", "i", "g", "h",
    "t", ":", "1", ";", "w", "h", "i", "t", "e", "-", "s", "p", "a",
    "c", "e", ":", "p", "r", "e", ";", "b", "a", "c", "k", "g", "r",
    "o", "u", "n", "d", ":", "#", "0", "0", "0", "\"">>
PreStylePlain ==
  <<"s", "t", "y", "l", "e", "=", "\"", "f", "o", "n", "t", "-", "f",
    "a", "m", "i", "l", "y", ":", "m", "o", "n", "o", "s", "p", "a",
    "c", "e", ";", "l", "i", "n", "e", "-", "h", "e", "i", "g", "h",
    "t", ":", "1", ";", "w", "h", "i", "t", "e", "-", "s", "p", "a",
    "c", "e", ":", "p", "r", "e", "\"">>

RECURSIVE Join(_, _)
\* lines.join(sep), lines a sequence of strings
Join(lines, sep) ==
  IF lines = <<>> THEN <<>>
  ELSE IF Len(lines) = 1 THEN lines[1]
  ELSE lines[1] \o sep \o Join(Tail(lines), sep)

RECURSIVE Concat(_)
\* the strings of a sequence appended one after the other
Concat(parts) ==
  IF parts = <<>> THEN <<>> ELSE Head(parts) \o Concat(Tail(parts))

BuildHtmlOutput(lines, colored) ==
  <<"<", "p", "r", "e", " ">>
  \o (IF colored THEN PreStyleColored ELSE PreStylePlain) \o <<">">>
  \o Join(lines, <<"\n">>) \o <<"<", "/", "p", "r", "e", ">">>

----------------------------------------------------------------------------
(* AsciiGenerator: processPixelData, one operator per part of its result.  *)
(* A call c records the arguments of processPixelData: c.pixelData, the    *)
(* grid c.width x c.height, and the generator's c.cfg and c.charset at     *)
(* the time of the call.  Rows and columns of the grids count from 1.      *)

CellColor(c, x, y) ==
  SamplePixelColor(c.pixelData, x - 1, y - 1, c.width, c.height)

CellChar(c, x, y) ==
  LET color == CellColor(c, x, y)
  IN LuminanceToChar(CalculateLuminance(color.r, color.g, color.b),
                     c.charset, c.cfg.inverted)

\* htmlLine += ... for one cell
CellHtml(c, x, y) ==
  LET color == CellColor(c, x, y)
  IN IF c.cfg.colored
       THEN SpanOpen \o RgbToCSS(color.r, color.g, color.b, color.a)
            \o SpanMid \o EscapeHtml(<<CellChar(c, x, y)>>) \o SpanClose
       ELSE EscapeHtml(<<CellChar(c, x, y)>>)

Characters(c) ==
  [y \in 1..c.height |-> [x \in 1..c.width |-> CellChar(c, x, y)]]

\* Colors, were each row filled with the colour of its first cell
ColorsOfFirstColumn(c) ==
  IF c.cfg.colored
    THEN Some([y \in 1..c.height |->
                 [x \in 1..c.width |-> CellColor(c, 1, y)]])
    ELSE Undefined

\* result.colors: Undefined unless colored
Colors(c) ==
  IF c.cfg.colored
    THEN Some([y \in 1..c.height |->
                 [x \in 1..c.width |-> CellColor(c, x, y)]])
    ELSE Undefined

Text(c) ==
  Join([y \in 1..c.height |->
          Concat([x \in 1..c.width |-> <<CellChar(c, x, y)>>])], <<"\n">>)

Html(c) ==
  BuildHtmlOutput([y \in 1..c.height |->
                     Concat([x \in 1..c.width |-> CellHtml(c, x, y)])],
                  c.cfg.colored)

\* the metadata convertImage builds, processingTime left out
Metadata(c) ==
  [width |-> c.width, height |-> c.height,
   characterCount |-> c.width * c.height, charset |-> c.charset,
   hasColor |-> c.cfg.colored]

\* ColorMap, were every cell made opaque
ColorMapOpaque(c) ==
  [y \in 1..c.height |->
     [x \in 1..c.width |-> [CellColor(c, x, y) EXCEPT !.a = 255]]]

\* the grid generateColorMap returns
ColorMap(c) ==
  [y \in 1..c.height |-> [x \in 1..c.width |-> CellColor(c, x, y)]]

----------------------------------------------------------------------------
(* Inputs *)

Part(has, r) ==
  [has |-> has,
   val |-> [f \in Fields |-> IF f \in has THEN r[f] ELSE Defaults[f]]]

NoPartial == Part({}, Defaults)

CsEmpty == <<>>
CsScript == <<"<", "s", "c", "r", "i", "p", "t", ">">>
CsAmp == <<"a", "&", "b">>
CsOnlyMarkup == <<"<", "&", ">">>
CsBLCOK == <<"B", "L", "C", "O", "K">>
CsShades == <<"U2588", "U2593", "U2592", "U2591", " ">>

\* arguments of new AsciiGenerator(...)
ConstructArgs ==
  { NoPartial,
    Part({"width"}, [width |-> 2]),
    Part({"width"}, [width |-> 80]),
    Part({"width"}, [width |-> 10000]),
    Part({"height"}, [height |-> 2]),
    Part({"width", "height", "colored"},
         [width |-> 2000, height |-> 2000, colored |-> TRUE]),
    Part({"width", "height", "colored"},
         [width |-> 1000, height |-> 1000, colored |-> TRUE]),
    Part({"width", "height"}, [width |-> 5000, height |-> 6000]),
    Part({"width", "height"}, [width |-> 5000, height |-> 5000]),
    Part({"aspectRatio"}, [aspectRatio |-> Ratio(0 - 1, 1)]),
    Part({"aspectRatio"}, [aspectRatio |-> Ratio(0, 1)]),
    Part({"width"}, [width |-> 0 - 1]),
    Part({"width"}, [width |-> 10001]),
    Part({"height"}, [height |-> 10001]),
    Part({"charset"}, [charset |-> CsEmpty]),
    Part({"charset"}, [charset |-> PresetCUSTOM]),
    Part({"charset"}, [charset |-> CsOnlyMarkup]),
    Part({"charset"}, [charset |-> CsScript]),
    Part({"charset"}, [charset |-> CsBLCOK]),
    Part({"charset"}, [charset |-> CsShades]),
    Part({"charset", "width", "aspectRatio"},
         [charset |-> CsAmp, width |-> 3, aspectRatio |-> Ratio(1, 1)]),
    Part({"charset", "width", "aspectRatio", "colored"},
         [charset |-> PresetEXTENDED, width |-> 3,
          aspectRatio |-> Ratio(1, 1), colored |-> TRUE]),
    Part({"charset", "inverted", "width", "optimized"},
         [charset |-> PresetBLOCK, inverted |-> TRUE, width |-> 2,
          optimized |-> FALSE]),
    Part({"charset", "width", "height"},
         [charset |-> PresetMINIMAL, width |-> 2, height |-> 7]) }

(* Arguments of updateConfig.  Aspect ratios are drawn from the positive   *)
(* numbers: a rejected update stays in the configuration, and a ratio of   *)
(* zero makes the grid dimensions infinite.                                *)
UpdateArgs ==
  { Part({"width"}, [width |-> 2]),
    Part({"height"}, [height |-> 0 - 1]),
    Part({"width", "height", "optimized"},
         [width |-> 0, height |-> 0 - 1, optimized |-> FALSE]),
    Part({"width", "height"}, [width |-> 0, height |-> 2]),
    Part({"width"}, [width |-> 10001]),
    Part({"width", "height"}, [width |-> 5000, height |-> 6000]),
    Part({"width", "height", "colored"},
         [width |-> 2000, height |-> 2000, colored |-> TRUE]),
    Part({"colored"}, [colored |-> TRUE]),
    Part({"inverted", "optimized"}, [inverted |-> TRUE, optimized |-> FALSE]),
    Part({"aspectRatio", "width"}, [aspectRatio |-> Ratio(1, 1), width |-> 3]),
    Part({"charset"}, [charset |-> PresetEXTENDED]),
    Part({"charset"}, [charset |-> PresetSTANDARD]),
    Part({"charset"}, [charset |-> CsScript]),
    Part({"charset"}, [charset |-> CsAmp]),
    Part({"charset"}, [charset |-> CsEmpty]),
    Part({"charset"}, [charset |-> PresetCUSTOM]),
    Part({"charset", "width"}, [charset |-> CsOnlyMarkup, width |-> 3]),
    Part({"charset", "height"}, [charset |-> PresetMINIMAL, height |-> 10001]) }

Pixel(r, g, b, a) == <<r, g, b, a>>
Gray(v) == <<v, v, v, 255>>

Black == Pixel(0, 0, 0, 255)
White == Pixel(255, 255, 255, 255)

ImgBlack2x2 == ImageData(2, 2, Black \o Black \o Black \o Black)
ImgWhite2x2 == ImageData(2, 2, White \o White \o White \o White)
ImgMixed2x2 ==
  ImageData(2, 2, Pixel(255, 0, 0, 255) \o Pixel(0, 255, 0, 128)
                  \o Pixel(0, 0, 255, 255) \o Pixel(255, 255, 255, 0))
\* six grays that the EXTENDED ramp renders as & < > " ` '
ImgGrays3x2 ==
  ImageData(3, 2, Gray(20) \o Gray(205) \o Gray(208)
                  \o Gray(238) \o Gray(245) \o Gray(250))
ImgTall1x2 == ImageData(1, 2, Black \o White)

Canvas640x480 == Canvas(640, 480, Gray(208))
CanvasEmpty == Canvas(0, 0, Black)
CanvasWide == Canvas(20000, 10, Black)
Video4x8 == Video(0, 0, 4, 8, Gray(20))

Sources ==
  { ImgBlack2x2, ImgWhite2x2, ImgMixed2x2, ImgGrays3x2, ImgTall1x2,
    Canvas640x480, CanvasEmpty, CanvasWide, Video4x8 }

NoSource == ImageData(0, 0, <<>>)

\* TextToAsciiOptions, font left out: it only reaches the platform
TextFields ==
  {"fontSize", "fontWeight", "fontStyle", "color", "backgroundColor",
   "padding"}
TextDefaults ==
  [fontSize |-> 48, fontWeight |-> Str(Normal), fontStyle |-> Normal,
   color |-> Black, backgroundColor |-> White, padding |-> 10]
Options(has, r) ==
  [has |-> has,
   val |-> [f \in TextFields |-> IF f \in has THEN r[f] ELSE TextDefaults[f]]]
\* what measureText and fillText do with a text
Platform(textWidth, ink) == [textWidth |-> textWidth, ink |-> ink]
TextCall(length, options, platform) ==
  [text |-> [length |-> length], options |-> options, platform |-> platform]
NoText == TextCall(0, Options({}, TextDefaults), Platform(0, {}))

\* arguments of convertText, with the platform's rendering of each
TextArgs ==
  { TextCall(2, Options({"fontSize", "padding"},
                        [fontSize |-> 2, padding |-> 0]),
             Platform(17, {2})),
    TextCall(3, Options({"fontSize", "fontStyle", "fontWeight", "padding",
                         "color", "backgroundColor"},
                        [fontSize |-> 1, fontStyle |-> Italic,
                         fontWeight |-> Num(700), padding |-> 1,
                         color |-> White, backgroundColor |-> Black]),
             Platform(10, {5, 6})),
    TextCall(0, Options({"fontSize", "padding"},
                        [fontSize |-> 1, padding |-> 0]),
             Platform(0, {})),
    TextCall(10001, Options({}, TextDefaults), Platform(0, {})) }

----------------------------------------------------------------------------
(* AsciiGenerator: the calls *)

\* the record of a call: what was passed, what it worked on, how it ended
Call(op, partial, source) ==
  [op |-> op, partial |-> partial, source |-> source, status |-> "ok",
   error |-> NoError, cfg |-> Defaults, charset |-> <<>>,
   pixelData |-> NoPixelData, width |-> 0, height |-> 0, text |-> NoText]

Throw(c, msg) == [c EXCEPT !.status = "error", !.error = msg]

NoCall == [Call("none", NoPartial, NoSource) EXCEPT !.status = "none"]

\* new AsciiGenerator(p)
Construct(p) ==
  LET merged == ApplyDefaults(p)
      resolved == ResolveCharset(merged.charset)
      invalid == ValidateConfig(merged, resolved.value)
      c == [Call("construct", p, NoSource) EXCEPT !.cfg = merged]
  IN /\ gen = "none"
     /\ calls < MaxCalls
     /\ calls' = calls + 1
     /\ IF ~resolved.ok
          THEN /\ last' = Throw(c, resolved.error)
               /\ UNCHANGED <<gen, config, charset>>
        ELSE IF invalid # NoError
          THEN /\ last' = Throw([c EXCEPT !.charset = resolved.value], invalid)
               /\ UNCHANGED <<gen, config, charset>>
        ELSE /\ gen' = "live"
             /\ config' = merged
             /\ charset' = resolved.value
             /\ last' = [c EXCEPT !.charset = resolved.value]
     /\ UNCHANGED <<fcall, fret, memo, snapshot>>

NoMemo == [call |-> NoCall, between |-> {}]

(* A reference to a configuration object, as the caller of getConfig holds  *)
(* it: val is what the caller reads through it, alias tells whether it is   *)
(* the generator's own object rather than a copy, and written counts the    *)
(* caller's assignments to its fields.                                      *)
NoSnapshot ==
  [held |-> FALSE, alias |-> FALSE, val |-> Defaults, written |-> 0]
\* cfg itself, were getConfig to return this.config
ConfigReference(cfg) ==
  [held |-> TRUE, alias |-> TRUE, val |-> cfg, written |-> 0]
\* ConfigCopy, were the charset field replaced by the resolved ramp
ConfigCopyResolved(cfg) ==
  [held |-> TRUE, alias |-> FALSE, val |-> [cfg EXCEPT !.charset = charset],
   written |-> 0]
\* { ...cfg }: a new object with the fields of cfg
ConfigCopy(cfg) ==
  [held |-> TRUE, alias |-> FALSE, val |-> cfg, written |-> 0]
\* what is read through reference ref once the generator's object is cfg
Seen(ref, cfg) == IF ref.alias THEN [ref EXCEPT !.val = cfg] ELSE ref

\* Assign, were the fields a partial update lacks set back to the defaults
AssignOverDefaults(cfg, p, fs) ==
  [f \in Fields |-> IF f \in fs /\ f \in p.has THEN p.val[f] ELSE Defaults[f]]

\* the assignments of updateConfig from field f on, in the order of the code
Assign(cfg, p, fs) ==
  [f \in Fields |-> IF f \in fs /\ f \in p.has THEN p.val[f] ELSE cfg[f]]

\* generator.updateConfig(p)
UpdateConfig(p) ==
  LET resolved == ResolveCharset(p.val.charset)
      merged == Assign(config, p, Fields)
      newCharset == IF "charset" \in p.has THEN resolved.value ELSE charset
      invalid == ValidateConfig(merged, newCharset)
      c == Call("updateConfig", p, NoSource)
  IN /\ gen = "live"
     /\ calls < MaxCalls
     /\ calls' = calls + 1
     /\ IF "charset" \in p.has /\ ~resolved.ok
          THEN \* thrown after config.charset is assigned, before the rest
               /\ config' = Assign(config, p, {"charset"})
               /\ charset' = charset
               /\ last' = Throw([c EXCEPT !.cfg = config', !.charset = charset],
                                resolved.error)
          ELSE /\ config' = merged
               /\ charset' = newCharset
               /\ last' = IF invalid # NoError
                            THEN Throw([c EXCEPT !.cfg = merged,
                                                 !.charset = newCharset],
                                       invalid)
                            ELSE [c EXCEPT !.cfg = merged,
                                           !.charset = newCharset]
     /\ snapshot' = Seen(snapshot, config')
     /\ UNCHANGED <<gen, fcall, fret, memo>>

(* The steps convertImage and generateColorMap share, up to the grid loop,  *)
(* on a generator whose config is cfg and whose charset is cs.              *)
Prepare(cfg, cs, op, source) ==
  LET c == [Call(op, NoPartial, source) EXCEPT !.cfg = cfg, !.charset = cs]
      natural == ExtractPixelData(source, Undefined, Undefined)
      dimensions ==
        CalculateDimensions(natural.value.width, natural.value.height,
                            OrUndefined(cfg.width),
                            OrUndefined(cfg.height), cfg.aspectRatio)
      resized ==
        ExtractPixelData(source, Some(dimensions.width),
                         Some(dimensions.height))
  IN IF ~natural.ok THEN Throw(c, natural.error)
     ELSE IF ~resized.ok
       THEN Throw([c EXCEPT !.width = dimensions.width,
                            !.height = dimensions.height], resized.error)
     ELSE [c EXCEPT !.width = dimensions.width,
                    !.height = dimensions.height,
                    !.pixelData = resized.value]

\* ConvertImageCall, were the pixels of the previous conversion kept
ConvertImageCallKeepingPixels(cfg, cs, source) ==
  LET c == Prepare(cfg, cs, "convertImage", source)
  IN IF c.status = "ok" /\ last.status = "ok"
        /\ last.op \in {"convertImage", "convertText", "generateColorMap"}
       THEN [c EXCEPT !.pixelData = last.pixelData]
       ELSE c

\* convertImage(source) on a generator whose config is cfg and charset cs
ConvertImageCall(cfg, cs, source) ==
  LET c == Prepare(cfg, cs, "convertImage", source)
  IN IF c.status = "ok" /\ cfg.optimized
        /\ (c.height < 0 \/ (c.height > 0 /\ c.width < 0))
       THEN \* characters.length = height, new Array(width)
            Throw(c, ErrRange)
       ELSE c

\* what a call that ended as c adds to the record of the calls made
Remember(c) ==
  IF memo.call.op = "none"
    THEN (IF c.op = "convertImage" THEN [call |-> c, between |-> {}]
          ELSE memo)
    ELSE [memo EXCEPT !.between = @ \cup {<<c.op, c.status>>}]

\* generator.convertImage(source)
ConvertImage(source) ==
  /\ gen = "live"
  /\ calls < MaxCalls
  /\ calls' = calls + 1
  /\ last' = ConvertImageCall(config, charset, source)
  /\ UNCHANGED <<gen, config, charset, fcall, fret, snapshot>>

\* generator.generateColorMap(source)
GenerateColorMap(source) ==
  /\ gen = "live"
  /\ calls < MaxCalls
  /\ calls' = calls + 1
  /\ last' = Prepare(config, charset, "generateColorMap", source)
  /\ UNCHANGED <<gen, config, charset, fcall, fret, snapshot>>

\* generator.convertText(text, options), rendered as t.platform renders it
ConvertText(t) ==
  LET o == t.options.val
      imageData ==
        RenderTextToCanvas(t.text, o.fontSize, o.fontWeight, o.fontStyle,
                           o.color, o.backgroundColor, o.padding, t.platform)
      c == [Call("convertText", NoPartial, NoSource)
              EXCEPT !.cfg = config, !.charset = charset, !.text = t]
  IN /\ gen = "live"
     /\ calls < MaxCalls
     /\ calls' = calls + 1
     /\ last' = IF ~imageData.ok THEN Throw(c, imageData.error)
                ELSE [ConvertImageCall(config, charset, imageData.value)
                        EXCEPT !.op = "convertText", !.text = t]
     /\ UNCHANGED <<gen, config, charset, fcall, fret, snapshot>>

\* generator.getConfig(), the caller keeping what it returns
GetConfig ==
  /\ gen = "live"
  /\ calls < MaxCalls
  /\ calls' = calls + 1
  /\ last' = [Call("getConfig", NoPartial, NoSource)
                EXCEPT !.cfg = config, !.charset = charset]
  /\ snapshot' = ConfigCopy(config)
  /\ UNCHANGED <<gen, config, charset, fcall, fret, memo>>

\* the caller's snapshot.f = v, on the object getConfig returned
ModifySnapshot(f, v) ==
  /\ snapshot.held
  /\ calls < MaxCalls
  /\ calls' = calls + 1
  /\ snapshot' = [snapshot EXCEPT !.val[f] = v, !.written = @ + 1]
  /\ config' = IF snapshot.alias THEN [config EXCEPT ![f] = v] ELSE config
  /\ UNCHANGED <<gen, charset, last, fcall, fret, memo>>

\* a call made on the generator by its owner, no worker standing between
Direct(A) == A /\ UNCHANGED <<inbox, handled, outbox>>

\* a step of the generator on its own, no call being recorded
Alone(A) == Direct(A) /\ UNCHANGED memo

NoFCall ==
  [f |-> "none", sourceWidth |-> 0, sourceHeight |-> 0,
   targetWidth |-> Undefined, targetHeight |-> Undefined,
   aspectRatio |-> Ratio(1, 1)]

Init ==
  /\ gen = "none"
  /\ config = Defaults
  /\ charset = <<>>
  /\ last = NoCall
  /\ calls = 0
  /\ fcall = NoFCall
  /\ fret = <<>>
  /\ memo = NoMemo
  /\ snapshot = NoSnapshot
  /\ inbox = <<>> /\ handled = 0 /\ outbox = <<>>

Next ==
  \/ \E p \in ConstructArgs : Direct(Construct(p))
  \/ \E p \in UpdateArgs : Direct(UpdateConfig(p))
  \/ \E s \in Sources : Alone(ConvertImage(s))
  \/ \E s \in Sources : Alone(GenerateColorMap(s))

Spec == Init /\ [][Next]_vars

----------------------------------------------------------------------------
(* Conversions of one generator, one after another *)

ConvConstructArgs ==
  { Part({"width"}, [width |-> 2]),
    Part({"height"}, [height |-> 2]),
    Part({"charset", "width", "aspectRatio", "colored"},
         [charset |-> PresetEXTENDED, width |-> 3,
          aspectRatio |-> Ratio(1, 1), colored |-> TRUE]),
    Part({"charset", "inverted", "width", "optimized"},
         [charset |-> PresetBLOCK, inverted |-> TRUE, width |-> 2,
          optimized |-> FALSE]) }

ConvSources == {ImgMixed2x2, ImgTall1x2, CanvasEmpty, Video4x8}

\* a conversion, recorded among the calls made since the first convertImage
Recorded(A) == Direct(A) /\ memo' = Remember(last')

ConvNext ==
  \/ \E p \in ConvConstructArgs : Direct(Construct(p))
  \/ \E s \in ConvSources : Recorded(ConvertImage(s))
  \/ \E t \in TextArgs : Recorded(ConvertText(t))
  \/ \E s \in ConvSources : Recorded(GenerateColorMap(s))

ConvSpec == Init /\ [][ConvNext]_vars

----------------------------------------------------------------------------
(* The configuration, as set and as read back *)

\* what the caller writes into the object getConfig returned
SnapshotWrites ==
  { <<"width", 7>>, <<"colored", TRUE>>, <<"inverted", TRUE>>,
    <<"charset", CsScript>>, <<"charset", PresetBLOCK>> }

CfgSources == {ImgMixed2x2, ImgGrays3x2}

CfgNext ==
  \/ \E p \in ConstructArgs : Direct(Construct(p))
  \/ \E p \in UpdateArgs : Direct(UpdateConfig(p))
  \/ Direct(GetConfig)
  \/ \E w \in SnapshotWrites : Direct(ModifySnapshot(w[1], w[2]))
  \/ \E s \in CfgSources : Alone(ConvertImage(s))

CfgSpec == Init /\ [][CfgNext]_vars

----------------------------------------------------------------------------
(* calculateDimensions called on its own *)

MaxSourceSide == 4

SourceSides == (1..MaxSourceSide) \cup {480, 640}
Targets == {Undefined, Some(0), Some(1), Some(2), Some(3), Some(80)}
AspectRatios == {Ratio(11, 20), Ratio(1, 2), Ratio(1, 1), Ratio(2, 1)}

\* the arguments of a call about to be made
DimInit ==
  /\ gen = "none"
  /\ config = Defaults
  /\ charset = <<>>
  /\ last = NoCall
  /\ calls = 0
  /\ fcall \in [f : {"pending"}, sourceWidth : SourceSides,
                sourceHeight : SourceSides, targetWidth : Targets,
                targetHeight : Targets, aspectRatio : AspectRatios]
  /\ fret = <<>>
  /\ memo = NoMemo
  /\ snapshot = NoSnapshot
  /\ inbox = <<>> /\ handled = 0 /\ outbox = <<>>

CallCalculateDimensions ==
  /\ fcall.f = "pending"
  /\ fcall' = [fcall EXCEPT !.f = "calculateDimensions"]
  /\ fret' = CalculateDimensions(fcall.sourceWidth, fcall.sourceHeight,
                                 fcall.targetWidth, fcall.targetHeight,
                                 fcall.aspectRatio)
  /\ UNCHANGED <<gen, config, charset, last, calls, memo, snapshot, inbox,
                  handled, outbox>>

DimNext == CallCalculateDimensions

DimSpec == DimInit /\ [][DimNext]_vars

----------------------------------------------------------------------------
(* luminanceToChar called on its own *)

\* luminances are drawn from this far below 0 to this far above 255
LumOvershoot == 2

Luminances == (0 - LumOvershoot)..(255 + LumOvershoot)

CsABC == <<"A", " ", "B">>
CsSix == <<"a", "b", "c", "d", "e", "f">>
CsOne == <<"x">>
CsLetters ==
  << "a", "b", "c", "d", "e", "f", "g", "h", "i", "j", "k", "l", "m",
     "n", "o", "p", "q", "r", "s", "t", "u", "v", "w", "x", "y", "z",
     "A", "B", "C", "D", "E", "F", "G", "H", "I", "J", "K", "L", "M",
     "N", "O", "P", "Q", "R", "S", "T", "U", "V", "W", "X", "Y", "Z" >>

LumCharsets ==
  { RampBLOCK, RampSTANDARD, RampMINIMAL, RampEXTENDED, CsABC, CsSix, CsOne,
    CsLetters }

\* the arguments of a call about to be made
LumInit ==
  /\ gen = "none"
  /\ config = Defaults
  /\ charset = <<>>
  /\ last = NoCall
  /\ calls = 0
  /\ fcall \in [f : {"pending"}, luminance : Luminances,
                charset : LumCharsets, inverted : BOOLEAN,
                clampedIndex : {0 - 1}]
  /\ fret = <<>>
  /\ memo = NoMemo
  /\ snapshot = NoSnapshot
  /\ inbox = <<>> /\ handled = 0 /\ outbox = <<>>

\* luminanceToChar(luminance, charset, inverted); clampedIndex is its local
CallLuminanceToChar ==
  /\ fcall.f = "pending"
  /\ fcall' = [fcall EXCEPT
                 !.f = "luminanceToChar",
                 !.clampedIndex =
                   LuminanceIndex(fcall.luminance * 1000, Len(fcall.charset),
                                  fcall.inverted)]
  /\ fret' = LuminanceToChar(fcall.luminance * 1000, fcall.charset,
                             fcall.inverted)
  /\ UNCHANGED <<gen, config, charset, last, calls, memo, snapshot, inbox,
                  handled, outbox>>

LumNext == CallLuminanceToChar

LumSpec == LumInit /\ [][LumNext]_vars

----------------------------------------------------------------------------
(* extractPixelData called on its own *)

ExtSources ==
  { ImgMixed2x2, ImgTall1x2, Canvas640x480, CanvasEmpty, CanvasWide,
    Canvas(0, 5, White), Video4x8, Video(0, 0, 0, 0, Black) }
ExtTargets ==
  {Undefined, Some(0), Some(3), Some(2501), Some(MAX_DIMENSION),
   Some(MAX_DIMENSION + 1)}

ExtInit ==
  /\ gen = "none"
  /\ config = Defaults
  /\ charset = <<>>
  /\ last = NoCall
  /\ calls = 0
  /\ fcall \in [f : {"pending"}, source : ExtSources,
                targetWidth : ExtTargets, targetHeight : ExtTargets]
  /\ fret = <<>>
  /\ memo = NoMemo
  /\ snapshot = NoSnapshot
  /\ inbox = <<>> /\ handled = 0 /\ outbox = <<>>

\* extractPixelData(source, targetWidth, targetHeight)
CallExtractPixelData ==
  /\ fcall.f = "pending"
  /\ fcall' = [fcall EXCEPT !.f = "extractPixelData"]
  /\ fret' = ExtractPixelData(fcall.source, fcall.targetWidth,
                              fcall.targetHeight)
  /\ UNCHANGED <<gen, config, charset, last, calls, memo, snapshot, inbox,
                  handled, outbox>>

ExtNext == CallExtractPixelData

ExtSpec == ExtInit /\ [][ExtNext]_vars

----------------------------------------------------------------------------
(* renderTextToCanvas called on its own, and through convertText *)

TextLengths == {0, 3, MAX_TEXT_LENGTH, MAX_TEXT_LENGTH + 1}
FontSizes == {0, 1, MAX_FONT_SIZE, MAX_FONT_SIZE + 1}
FontStyles == {Normal, Italic, Oblique, Bold}
FontWeights ==
  {Str(Normal), Str(Bold), Str(<<"5", "0", "0">>), Str(Italic), Num(100),
   Num(900), Num(450), Num(1000)}

\* a text is measured one pixel wide, and its first pixel is inked
TextCalls ==
  {TextCall(n, Options({"fontSize", "fontWeight", "fontStyle", "padding"},
                       [fontSize |-> fs, fontWeight |-> fw, fontStyle |-> st,
                        padding |-> 0]),
            Platform(IF n = 0 THEN 0 ELSE 10, {1})) :
     n \in TextLengths, fs \in FontSizes, st \in FontStyles,
     fw \in FontWeights}

TextInit ==
  /\ gen = "none"
  /\ config = Defaults
  /\ charset = <<>>
  /\ last = NoCall
  /\ calls = 0
  /\ fcall \in [f : {"pending"}, call : TextCalls]
  /\ fret = <<>>
  /\ memo = NoMemo
  /\ snapshot = NoSnapshot
  /\ inbox = <<>> /\ handled = 0 /\ outbox = <<>>

\* renderTextToCanvas(text, font, fontSize, ...), with the arguments of fcall
CallRenderTextToCanvas ==
  LET t == fcall.call
      o == t.options.val
  IN /\ fcall.f = "pending"
     /\ fcall' = [fcall EXCEPT !.f = "renderTextToCanvas"]
     /\ fret' = RenderTextToCanvas(t.text, o.fontSize, o.fontWeight,
                                   o.fontStyle, o.color, o.backgroundColor,
                                   o.padding, t.platform)
     /\ UNCHANGED <<gen, config, charset, last, calls, memo, snapshot, inbox,
                  handled, outbox>>

TextConstructArgs == {NoPartial, Part({"width"}, [width |-> 2])}

TextNext ==
  \/ CallRenderTextToCanvas
  \/ \E p \in TextConstructArgs : Direct(Construct(p))
  \/ Alone(ConvertText(fcall.call))

TextSpec == TextInit /\ [][TextNext]_vars

----------------------------------------------------------------------------
(* samplePixelColor called for the cells of a grid in the order of the      *)
(* loops of processPixelData and generateColorMap: rows from the top, and   *)
(* the columns of a row from the left.                                      *)

MaxSampleSide == 4

Gradient15x1 ==
  Gray(0) \o Gray(17) \o Gray(34) \o Gray(51) \o Gray(68) \o Gray(85)
  \o Gray(102) \o Gray(119) \o Gray(136) \o Gray(153) \o Gray(170)
  \o Gray(187) \o Gray(204) \o Gray(221) \o Gray(238)

\* the last one holds the bytes of five of its six pixels only
SampBuffers ==
  { PixelData(Bytes(ImgMixed2x2.data), 2, 2),
    PixelData(Bytes(ImgGrays3x2.data), 3, 2),
    PixelData(Bytes(ImgTall1x2.data), 1, 2),
    PixelData(Bytes(Gradient15x1), 15, 1),
    PixelData(Bytes(SubSeq(ImgGrays3x2.data, 1, 20)), 3, 2) }
SampGridWidths == (1..MaxSampleSide) \cup {11, 13}
SampGridHeights == 1..(MaxSampleSide - 1)

SampInit ==
  /\ gen = "none"
  /\ config = Defaults
  /\ charset = <<>>
  /\ last = NoCall
  /\ calls = 0
  /\ fcall \in [f : {"pending"}, pixelData : SampBuffers,
                gridWidth : SampGridWidths, gridHeight : SampGridHeights,
                gridX : {0 - 1}, gridY : {0}, startX : {0}, startY : {0},
                endX : {0}, endY : {0}, read : {{}}, cells : {<<>>}]
  /\ fret = <<>>
  /\ memo = NoMemo
  /\ snapshot = NoSnapshot
  /\ inbox = <<>> /\ handled = 0 /\ outbox = <<>>

\* the byte offsets samplePixelColor reads for a grid cell
ReadOffsets(pixelData, gridX, gridY, gridWidth, gridHeight) ==
  {(p[2] * pixelData.width + p[1]) * 4 + k :
     p \in SampledPixels(pixelData, gridX, gridY, gridWidth, gridHeight),
     k \in 0..3}

\* samplePixelColor(pixelData, x, y, width, height) for the next cell
CallSamplePixelColor ==
  LET wrap == fcall.gridX + 1 = fcall.gridWidth
      x == IF wrap THEN 0 ELSE fcall.gridX + 1
      y == IF wrap THEN fcall.gridY + 1 ELSE fcall.gridY
      pd == fcall.pixelData
  IN /\ fcall.f \in {"pending", "samplePixelColor"}
     /\ y < fcall.gridHeight
     /\ fcall' =
          [fcall EXCEPT
             !.f = "samplePixelColor", !.gridX = x, !.gridY = y,
             !.startX = CellBound(x, pd.width, fcall.gridWidth),
             !.startY = CellBound(y, pd.height, fcall.gridHeight),
             !.endX = CellBound(x + 1, pd.width, fcall.gridWidth),
             !.endY = CellBound(y + 1, pd.height, fcall.gridHeight),
             !.read = ReadOffsets(pd, x, y, fcall.gridWidth,
                                  fcall.gridHeight),
             !.cells = Append(fcall.cells,
                              SampledPixels(pd, x, y, fcall.gridWidth,
                                            fcall.gridHeight))]
     /\ fret' = SamplePixelColor(pd, x, y, fcall.gridWidth, fcall.gridHeight)
     /\ UNCHANGED <<gen, config, charset, last, calls, memo, snapshot, inbox,
                  handled, outbox>>

SampNext == CallSamplePixelColor

SampSpec == SampInit /\ [][SampNext]_vars

----------------------------------------------------------------------------
(* examples/worker/ascii-worker.ts: a worker that owns one generator and    *)
(* answers the messages posted to it.  The messages wait in the order of    *)
(* their arrival; the handler runs for one message at a time, to its end.   *)
(* A response carries, beside its fields, the number of the message the     *)
(* handler was running for when it posted it.                               *)

MaxMessages == 3

\* new AsciiGenerator({charset: CharsetPreset.BLOCK, colored: true, width: 80})
WorkerConfig ==
  Part({"charset", "colored", "width"},
       [charset |-> PresetBLOCK, colored |-> TRUE, width |-> 80])

\* e.data; imageData and config are Undefined when the message has none
Message(type, imageData, partial) ==
  [type |-> type, imageData |-> imageData, config |-> partial]

WorkerMessages ==
  { Message("convert", Some(ImgMixed2x2), Undefined),
    Message("convert", Some(ImgGrays3x2),
            Some(Part({"width"}, [width |-> 2]))),
    Message("convert", Undefined, Undefined),
    Message("updateConfig", Undefined, Some(Part({"width"}, [width |-> 2]))),
    Message("updateConfig", Undefined,
            Some(Part({"charset"}, [charset |-> CsEmpty]))),
    Message("updateConfig", Some(ImgMixed2x2), Undefined),
    Message("reset", Undefined, Undefined) }

ErrUnknownType(type) == <<"Unknown", "message", "type:", type>>

\* { type: 'result', result } and { type: 'error', error }
ResultResponse(result, to) ==
  [type |-> "result", result |-> result, error |-> NoError, to |-> to]
ErrorResponse(msg, to) ==
  [type |-> "error", result |-> Undefined, error |-> msg, to |-> to]

\* what the handler posts after a call on the generator that ended as c
ResponseTo(c, result, to) ==
  IF c.status = "ok" THEN ResultResponse(result, to)
  ELSE ErrorResponse(c.error, to)

\* the module is loaded: let generator = new AsciiGenerator({...})
WorkerLoad == Direct(Construct(WorkerConfig))

\* a message posted to the worker arrives
Receive(m) ==
  /\ gen = "live"
  /\ Len(inbox) < MaxMessages
  /\ inbox' = Append(inbox, m)
  /\ UNCHANGED <<gen, config, charset, last, calls, fcall, fret, memo,
                 snapshot, handled, outbox>>

\* self.onmessage, run for the oldest message not handled yet
OnMessage ==
  /\ handled < Len(inbox)
  /\ handled' = handled + 1
  /\ UNCHANGED inbox
  /\ LET e == inbox[handled + 1]
         type == e.type
         imageData == e.imageData
         config_ == e.config
         quiet == UNCHANGED <<gen, config, charset, last, calls, fcall,
                              fret, memo, snapshot>>
     IN IF type = "updateConfig"
          THEN IF config_ # Undefined
                 THEN /\ UpdateConfig(config_[1])
                      /\ outbox' = Append(outbox,
                                          ResponseTo(last', Undefined,
                                                     handled'))
                 ELSE quiet /\ UNCHANGED outbox
        ELSE IF type = "convert"
          THEN IF imageData # Undefined
                 THEN /\ ConvertImage(imageData[1])
                      /\ UNCHANGED memo
                      /\ outbox' = Append(outbox,
                                          ResponseTo(last', Some(last'),
                                                     handled'))
                 ELSE quiet /\ UNCHANGED outbox
        ELSE /\ quiet
             /\ outbox' = Append(outbox,
                                 ErrorResponse(ErrUnknownType(type),
                                               handled'))

WorkerNext ==
  \/ WorkerLoad
  \/ \E m \in WorkerMessages : Receive(m)
  \/ OnMessage

WorkerSpec == Init /\ [][WorkerNext]_vars

----------------------------------------------------------------------------
(* What a browser reads back from markup: standard HTML entity decoding     *)
(* and the text content of a fragment.                                      *)

Digits == {"0", "1", "2", "3", "4", "5", "6", "7", "8", "9"}

DigitValue(c) ==
  CHOOSE n \in 0..9 : Digit(n) = c

RECURSIVE DecimalValue(_)
DecimalValue(ds) ==
  IF ds = <<>> THEN 0
  ELSE 10 * DecimalValue(SubSeq(ds, 1, Len(ds) - 1)) + DigitValue(ds[Len(ds)])

\* the characters of the code points that occur here
CodePoints == {34, 38, 39, 60, 62, 96}
CharOfCode(n) ==
  CASE n = 34 -> "\"" [] n = 38 -> "&" [] n = 39 -> "'"
    [] n = 60 -> "<" [] n = 62 -> ">" [] n = 96 -> "U0060"

NamedEntities ==
  { <<"a", "m", "p">>, <<"l", "t">>, <<"g", "t">>, <<"q", "u", "o", "t">>,
    <<"a", "p", "o", "s">> }
CharOfName(name) ==
  CASE name = <<"a", "m", "p">> -> "&"
    [] name = <<"l", "t">> -> "<"
    [] name = <<"g", "t">> -> ">"
    [] name = <<"q", "u", "o", "t">> -> "\""
    [] name = <<"a", "p", "o", "s">> -> "'"

\* the body of a character reference, between & and ;
IsReference(body) ==
  \/ body \in NamedEntities
  \/ /\ Len(body) >= 2
     /\ body[1] = "#"
     /\ \A k \in 2..Len(body) : body[k] \in Digits
     /\ DecimalValue(Tail(body)) \in CodePoints

CharOfReference(body) ==
  IF body \in NamedEntities THEN CharOfName(body)
  ELSE CharOfCode(DecimalValue(Tail(body)))

\* the position of the first c in s at or after i, 0 if there is none
IndexFrom(s, c, i) ==
  IF \E j \in i..Len(s) : s[j] = c
    THEN CHOOSE j \in i..Len(s) :
           s[j] = c /\ \A k \in i..(j - 1) : s[k] # c
    ELSE 0

RECURSIVE TagEnd(_, _, _)
\* the position of the > that closes the tag read from i on
TagEnd(s, i, quoted) ==
  IF i > Len(s) THEN Len(s)
  ELSE IF s[i] = "\"" THEN TagEnd(s, i + 1, ~quoted)
  ELSE IF s[i] = ">" /\ ~quoted THEN i
  ELSE TagEnd(s, i + 1, quoted)

RECURSIVE TextFrom(_, _)
\* the text content of s from position i on: tags dropped, references decoded
TextFrom(s, i) ==
  IF i > Len(s) THEN <<>>
  ELSE IF s[i] = "<" THEN TextFrom(s, TagEnd(s, i + 1, FALSE) + 1)
  ELSE IF s[i] = "&"
    THEN LET j == IndexFrom(s, ";", i + 1)
         IN IF j # 0 /\ IsReference(SubSeq(s, i + 1, j - 1))
              THEN <<CharOfReference(SubSeq(s, i + 1, j - 1))>>
                   \o TextFrom(s, j + 1)
              ELSE <<"&">> \o TextFrom(s, i + 1)
  ELSE <<s[i]>> \o TextFrom(s, i + 1)

TextContent(html) == TextFrom(html, 1)

----------------------------------------------------------------------------
(* Reading the last call *)

Configures == last.op \in {"construct", "updateConfig"}
Converted == last.op = "convertImage" /\ last.status = "ok"
\* the grid is small enough for its cells to be read one by one
CellsListed ==
  /\ last.width >= 1 /\ last.height >= 1
  /\ last.width * last.height <= MaxGridCells
\* the charset value the last construction or update was given, if any
GivenCharset ==
  IF "charset" \in last.partial.has THEN Some(last.partial.val.charset)
  ELSE IF last.op = "construct" THEN Some(Defaults.charset)
  ELSE Undefined
ResolutionErrors == {ErrCustomPreset, ErrOnlyInvalid, ErrInvalidCharset}
Chars(s) == {s[i] : i \in 1..Len(s)}
ResourceLimitErrors == {ErrDimension, ErrPixels}

----------------------------------------------------------------------------
(* Claims *)

ColoredLimitPhrase ==
  <<"exceeds", "maximum", "allowed", "for", "colored", "output">>

\* C1: a construction or update whose resulting configuration is colored
\* with width, height > 0 and width x height > 1,000,000 fails with a
\* message containing "exceeds maximum allowed for colored output"; colored
\* 1000 x 1000 succeeds.
C1_ColoredLimit ==
  Configures /\ last.cfg.colored /\ last.cfg.width > 0 /\ last.cfg.height > 0
  => IF last.cfg.width * last.cfg.height > 1000 * 1000
       THEN last.status = "error" /\ Includes(last.error, ColoredLimitPhrase)
       ELSE last.cfg.width = 1000 /\ last.cfg.height = 1000
            /\ last.error \notin ResolutionErrors
            => last.status = "ok"

\* C2: once constructed, whatever updates returned or threw, the
\* configuration held satisfies every validation invariant.
C2_ConfigAlwaysValid ==
  gen = "live"
  => /\ config.aspectRatio.n > 0
     /\ 0 <= config.width /\ config.width <= 10000
     /\ 0 <= config.height /\ config.height <= 10000
     /\ (config.width # 0 /\ config.height # 0
         => config.width * config.height <= 25000000)
     /\ Len(charset) >= 1

\* C3: an updateConfig that throws leaves the configuration and the
\* resolved charset exactly as they were before the call.
C3_UpdateAtomic ==
  [][calls' # calls /\ last'.op = "updateConfig" /\ last'.status = "error"
     => config' = config /\ charset' = charset]_vars

\* C4 as stated: for every accepted charset value the resolved charset has
\* length >= 1 and none of the characters < > ' " & and the grave accent.
C4_ResolvedFreeOfMarkup ==
  gen = "live" => Len(charset) >= 1 /\ Chars(charset) \cap Dangerous = {}

\* C4 amended: the resolved charset has length >= 1; it has none of the six
\* characters unless it is the EXTENDED ramp, which has all six.
C4_ResolvedFreeOfMarkupButExtended ==
  gen = "live"
  => /\ Len(charset) >= 1
     /\ IF charset = RampEXTENDED
          THEN Dangerous \subseteq Chars(charset)
          ELSE Chars(charset) \cap Dangerous = {}

C4_Witness ==
  /\ gen = "live" /\ Configures /\ last.status = "ok"
  /\ GivenCharset = Some(CsAmp)
  /\ charset = <<"a", "b">>

\* the configuration of the end-to-end scenario: STANDARD, width 2, the rest
\* at the defaults
ScenarioConfig == ApplyDefaults(Part({"width"}, [width |-> 2]))

BlackScenario ==
  /\ last.op = "convertImage" /\ last.source = ImgBlack2x2
  /\ last.cfg = ScenarioConfig

\* C5 as stated: the 2x2 black buffer under STANDARD, width 2, defaults
\* otherwise, gives characters [[@,@],[@,@]], text "@@\n@@" and
\* characterCount 4.
C5_BlackTwoRows ==
  BlackScenario
  => /\ last.status = "ok"
     /\ Characters(last) = << <<"@", "@">>, <<"@", "@">> >>
     /\ Text(last) = <<"@", "@", "\n", "@", "@">>
     /\ Metadata(last).characterCount = 4

\* C5 amended: with the default aspectRatio 0.55 the grid is 2 x 1
\* (height = floor(2/2 * 2 * 0.55) = 1): characters [[@,@]], text "@@" and
\* characterCount 2.
C5_BlackOneRow ==
  BlackScenario
  => /\ last.status = "ok"
     /\ Characters(last) = << <<"@", "@">> >>
     /\ Text(last) = <<"@", "@">>
     /\ Metadata(last).characterCount = 2

C5_Witness ==
  /\ BlackScenario /\ last.status = "ok"
  /\ last.charset = RampSTANDARD
  /\ ~last.cfg.inverted /\ ~last.cfg.colored
  /\ last.height = 1

\* C6: every convertImage whose derived grid has a side above 10,000 or
\* more than 25,000,000 cells fails with a resource-limit error, for every
\* kind of source, a raw pixel buffer included.
C6_GridLimitEnforced ==
  /\ last.op = "convertImage"
  /\ \/ last.width > 10000
     \/ last.height > 10000
     \/ last.width * last.height > 25000000
  => last.status = "error" /\ last.error \in ResourceLimitErrors

\* C7: every glyph the generator can emit is embedded in html in an escaped
\* form that standard entity decoding turns back into that glyph, colored or
\* not: the text content of html is text, cell by cell the glyph of
\* characters.
C7_EscapeRoundTrip ==
  /\ gen = "live"
     => \A i \in 1..Len(charset) :
          TextContent(EscapeHtml(<<charset[i]>>)) = <<charset[i]>>
  /\ Converted /\ CellsListed
     => /\ TextContent(Html(last)) = Text(last)
        /\ \A y \in 1..last.height : \A x \in 1..last.width :
             TextContent(CellHtml(last, x, y)) = <<Characters(last)[y][x]>>

C7_Witness ==
  /\ Converted /\ CellsListed
  /\ last.cfg.colored
  /\ last.charset = RampEXTENDED
  /\ {"&", "<", ">", "\"", "'", "U0060"} \subseteq Chars(Text(last))

\* the positions of cs that hold a character outside Dangerous, in order
SafePositions(cs) == {i \in 1..Len(cs) : cs[i] \notin Dangerous}
\* the k-th of them
KthSafe(cs, k) ==
  CHOOSE i \in SafePositions(cs) :
    Cardinality({j \in SafePositions(cs) : j <= i}) = k

C12_InversionSymmetry ==
  /\ fcall.f = "luminanceToChar" /\ fcall.inverted
  /\ fcall.luminance \in 0..255
  => fret = LuminanceToChar((255 - fcall.luminance) * 1000, fcall.charset,
                            FALSE)

Conversions == {"convertImage", "convertText", "generateColorMap"}

RECURSIVE GlyphCount(_)
GlyphCount(rows) ==
  IF rows = <<>> THEN 0 ELSE Len(Head(rows)) + GlyphCount(Tail(rows))

(* C14: whenever convertImage returns, characters has metadata.height rows *)
(* of metadata.width glyphs each, text is the rows, each concatenated,     *)
(* joined by single newlines, and metadata.characterCount is the number of *)
(* glyphs in characters.                                                   *)
C14_ResultShape ==
  (Converted /\ last.width * last.height <= MaxGridCells)
  => LET characters == Characters(last)
         metadata == Metadata(last)
     IN /\ Len(characters) = metadata.height
        /\ \A y \in 1..Len(characters) :
             Len(characters[y]) = metadata.width
        /\ Text(last)
             = Join([y \in 1..Len(characters) |-> characters[y]], <<"\n">>)
        /\ metadata.characterCount = GlyphCount(characters)
        /\ metadata.characterCount = metadata.width * metadata.height

(* C16: a convertImage call ends as the same call does on a generator that *)
(* differs only in the optimized flag: both throw, or both return, with    *)
(* equal text, html, characters, colors and metadata.                      *)
C16_OptimizedUnobservable ==
  last.op = "convertImage"
  => LET twin ==
           ConvertImageCall([last.cfg EXCEPT !.optimized = ~@], last.charset,
                            last.source)
     IN /\ twin.status = last.status
        /\ (last.status = "ok" /\ last.width * last.height <= MaxGridCells)
           => /\ Text(twin) = Text(last)
              /\ Html(twin) = Html(last)
              /\ Characters(twin) = Characters(last)
              /\ Colors(twin) = Colors(last)
              /\ Metadata(twin) = Metadata(last)

(* C15: the result of convertImage has a colors grid exactly when the      *)
(* configuration is colored at the time of the call; the grid has as many  *)
(* rows as characters and each row as many cells as the row of characters, *)
(* colors[y][x] is the colour sampled for cell (x, y), the one the glyph   *)
(* characters[y][x] is chosen from, and metadata.hasColor is the flag.     *)
C15_ColorsIffColored ==
  (Converted /\ last.width * last.height <= MaxGridCells)
  => LET characters == Characters(last)
         colors == Colors(last)
     IN /\ last.cfg = config
        /\ (colors # Undefined) <=> config.colored
        /\ Metadata(last).hasColor = config.colored
        /\ colors # Undefined
           => /\ Len(colors[1]) = Len(characters)
              /\ \A y \in 1..Len(characters) :
                   /\ Len(colors[1][y]) = Len(characters[y])
                   /\ \A x \in 1..Len(characters[y]) :
                        LET color == colors[1][y][x]
                        IN /\ color
                              = SamplePixelColor(last.pixelData, x - 1, y - 1,
                                                 last.width, last.height)
                           /\ characters[y][x]
                              = LuminanceToChar(
                                  CalculateLuminance(color.r, color.g,
                                                     color.b),
                                  last.charset, config.inverted)

C15_Witness ==
  /\ Converted
  /\ config.colored
  /\ last.source = ImgMixed2x2
  /\ last.width = 2 /\ last.height = 1
  /\ Colors(last)
     = Some(<< <<[r |-> 127, g |-> 0, b |-> 127, a |-> 255],
                 [r |-> 127, g |-> 255, b |-> 127, a |-> 64]>> >>)

C18_GetConfigSnapshot ==
  [][/\ (/\ calls' # calls
         /\ last'.op = "updateConfig"
         /\ snapshot'.written = snapshot.written)
        => snapshot'.val = snapshot.val
     /\ (/\ snapshot.held
         /\ snapshot'.written = snapshot.written + 1)
        => /\ config' = config
           /\ charset' = charset
           /\ \A s \in CfgSources :
                ConvertImageCall(config', charset', s)
                  = ConvertImageCall(config, charset, s)]_vars

\* a snapshot was taken and written to, and the configuration updated
C18_Witness ==
  /\ snapshot.held
  /\ snapshot.written = 1
  /\ snapshot.val.width = 7
  /\ last.op = "updateConfig" /\ last.status = "ok"
  /\ config.width = 2

\* getConfig has just returned, and its caller has not written to the value
ConfigRead == last.op = "getConfig" /\ snapshot.written = 0

(* C19: the charset field of the configuration getConfig returns is the    *)
(* resolved glyph ramp, the metadata.charset of a conversion made under    *)
(* that configuration.                                                     *)
C19_CharsetResolved ==
  ConfigRead
  => \A s \in CfgSources :
       LET c == ConvertImageCall(config, charset, s)
       IN c.status = "ok" => snapshot.val.charset = Metadata(c).charset

(* C19, amended: getConfig returns the configuration as it is stored, its  *)
(* charset field being the configured value (a preset name, or the custom  *)
(* string as it was given); the ramp a conversion uses and reports in      *)
(* metadata.charset is the resolution of that value whenever it resolves,  *)
(* which for a preset name is never the name.                              *)
C19_CharsetAsConfigured ==
  ConfigRead
  => /\ snapshot.val = config
     /\ ResolveCharset(config.charset).ok
        => \A s \in CfgSources :
             LET c == ConvertImageCall(config, charset, s)
             IN c.status = "ok"
                => Metadata(c).charset = ResolveCharset(config.charset).value
     /\ config.charset \in CharsetPreset \ {PresetCUSTOM}
        => /\ charset = CHARSET_MAP(config.charset)
           /\ snapshot.val.charset # charset

C19_Witness ==
  /\ ConfigRead
  /\ snapshot.val.charset = PresetEXTENDED
  /\ Metadata(ConvertImageCall(config, charset, ImgGrays3x2)).charset
     = RampEXTENDED

\* the defaults as documented, 0.55 being 11/20
DocumentedDefaults ==
  [charset |-> PresetSTANDARD, inverted |-> FALSE, colored |-> FALSE,
   aspectRatio |-> Ratio(11, 20), width |-> 0, height |-> 0,
   optimized |-> TRUE]

(* C20: a successful construction leaves in each configuration field the   *)
(* value its argument gives it, or else the documented default; a          *)
(* successful updateConfig leaves in each field the value its argument     *)
(* gives it, or else the value the field had; and getConfig reports the    *)
(* fields so obtained.                                                     *)
C20_DefaultsThenUpdates ==
  [][(calls' # calls /\ snapshot'.written = snapshot.written)
     => LET p == last'.partial
        IN /\ (last'.op = "construct" /\ last'.status = "ok")
              => \A f \in Fields :
                   config'[f] = IF f \in p.has THEN p.val[f]
                                ELSE DocumentedDefaults[f]
           /\ (last'.op = "updateConfig" /\ last'.status = "ok")
              => \A f \in Fields :
                   config'[f] = IF f \in p.has THEN p.val[f] ELSE config[f]
           /\ last'.op = "getConfig"
              => /\ config' = config
                 /\ \A f \in Fields : snapshot'.val[f] = config[f]]_vars

\* width from the constructor, colored from an update, charset by default
C20_Witness ==
  /\ last.op = "updateConfig" /\ last.status = "ok"
  /\ last.partial.has = {"colored"}
  /\ config.width = 80
  /\ config.colored
  /\ config.charset = PresetSTANDARD

(* C21: renderTextToCanvas, and convertText through it, throw when the     *)
(* text has more than 10,000 characters, or fontSize is below 1 or above   *)
(* 1000, or fontStyle is not normal, italic or oblique, or fontWeight as a *)
(* string is not normal, bold or one of 100, 200, ..., 900; the error is   *)
(* that of the first of these, in this order, that is violated; it is      *)
(* thrown before a canvas is created and nothing is produced; and when     *)
(* none is violated (10,000 characters, sizes 1 and 1000 among them) no    *)
(* validation error is thrown.                                             *)
C21_TextValidation ==
  LET t == fcall.call
      o == t.options.val
      weight ==
        IF o.fontWeight.type = "string" THEN o.fontWeight.s
        ELSE NumberToString(o.fontWeight.n)
      hundreds ==
        {<<d, "0", "0">> : d \in {"1", "2", "3", "4", "5", "6", "7", "8", "9"}}
      first ==
        IF t.text.length > 10000 THEN ErrTextLength
        ELSE IF o.fontSize < 1 \/ o.fontSize > 1000 THEN ErrFontSize
        ELSE IF o.fontStyle \notin {Normal, Italic, Oblique} THEN ErrFontStyle
        ELSE IF weight \notin ({Normal, Bold} \cup hundreds) THEN ErrFontWeight
        ELSE NoError
      validation == {ErrTextLength, ErrFontSize, ErrFontStyle, ErrFontWeight}
  IN /\ fcall.f = "renderTextToCanvas"
        => IF first # NoError
             THEN /\ ~fret.ok
                  /\ fret.error = first
                  /\ fret.canvases = 0
                  /\ fret.value = <<>>
             ELSE /\ fret.error \notin validation
                  /\ fret.canvases = 1
     /\ last.op = "convertText"
        => IF first # NoError
             THEN /\ last.status = "error"
                  /\ last.error = first
                  /\ last.source = NoSource
                  /\ last.pixelData = NoPixelData
             ELSE last.error \notin validation

\* too long a text in too large a font: the length is what is reported
C21_Witness ==
  /\ fcall.f = "renderTextToCanvas"
  /\ fcall.call.text.length = 10001
  /\ fcall.call.options.val.fontSize = 1001
  /\ fcall.call.options.val.fontStyle = Bold
  /\ fret.error = ErrTextLength
  /\ last.op = "convertText"
  /\ last.error = ErrTextLength

\* convertImage on the 2x2 all-white buffer, STANDARD, width 2, not inverted
WhiteScenario ==
  /\ last.op = "convertImage" /\ last.source = ImgWhite2x2
  /\ last.cfg.charset = PresetSTANDARD
  /\ last.cfg.width = 2
  /\ ~last.cfg.inverted

(* C22: converting the 2x2 buffer of four pixels {255,255,255,255} with    *)
(* charset STANDARD, width 2, not inverted, returns a grid in which every  *)
(* glyph is the space, the last glyph of the STANDARD ramp.                *)
C22_WhiteIsSpace ==
  WhiteScenario
  => /\ last.status = "ok"
     /\ last.width = 2 /\ last.height >= 1
     /\ RampSTANDARD[Len(RampSTANDARD)] = " "
     /\ \A y \in 1..last.height : \A x \in 1..last.width :
          Characters(last)[y][x] = " "
     /\ Chars(Text(last)) \subseteq {" ", "\n"}

C22_Witness ==
  /\ WhiteScenario
  /\ last.cfg = ScenarioConfig
  /\ Text(last) = <<" ", " ">>

(* C23: extractPixelData returns a raw pixel buffer's own data, width and  *)
(* height whatever targets it is given; for a drawable source it throws    *)
(* the invalid-source error when the source's width or height is 0,        *)
(* otherwise a resource-limit error when the final width or height (the    *)
(* target if given, else the source's) is above 10,000 or their product    *)
(* above 25,000,000, in both cases before its canvas is sized or drawn on, *)
(* and otherwise returns a buffer of exactly the final dimensions.         *)
C23_ExtractByCase ==
  fcall.f = "extractPixelData"
  => LET source == fcall.source
         sourceWidth ==
           IF source.kind = "video" /\ source.width = 0
             THEN source.videoWidth ELSE source.width
         sourceHeight ==
           IF source.kind = "video" /\ source.height = 0
             THEN source.videoHeight ELSE source.height
         finalWidth ==
           IF fcall.targetWidth = Undefined THEN sourceWidth
           ELSE fcall.targetWidth[1]
         finalHeight ==
           IF fcall.targetHeight = Undefined THEN sourceHeight
           ELSE fcall.targetHeight[1]
     IN IF source.kind = "ImageData"
          THEN /\ fret.ok
               /\ fret.value.data = Bytes(source.data)
               /\ fret.value.width = source.width
               /\ fret.value.height = source.height
        ELSE IF sourceWidth = 0 \/ sourceHeight = 0
          THEN ~fret.ok /\ fret.error = ErrInvalidDims /\ ~fret.sized
        ELSE IF \/ finalWidth > 10000 \/ finalHeight > 10000
                \/ finalWidth * finalHeight > 25000000
          THEN ~fret.ok /\ fret.error \in ResourceLimitErrors /\ ~fret.sized
        ELSE /\ fret.ok
             /\ fret.value.width = finalWidth
             /\ fret.value.height = finalHeight
             /\ fret.value.data.length = 4 * finalWidth * finalHeight

GridSampled ==
  /\ fcall.f = "samplePixelColor"
  /\ fcall.gridX = fcall.gridWidth - 1 /\ fcall.gridY = fcall.gridHeight - 1

\* C28: when the grid has at least one column and one row, no more columns
\* than the buffer has pixel columns and no more rows than it has pixel
\* rows, every pixel of the buffer is averaged into exactly one grid cell
\* and every cell averages at least one pixel.
C28_CellsPartition ==
  LET pd == fcall.pixelData
  IN /\ GridSampled
     /\ pd.data.length = pd.width * pd.height * 4
     /\ fcall.gridWidth <= pd.width /\ fcall.gridHeight <= pd.height
     => /\ \A p \in (0..(pd.width - 1)) \X (0..(pd.height - 1)) :
             Cardinality({i \in DOMAIN fcall.cells : p \in fcall.cells[i]})
               = 1
        /\ \A i \in DOMAIN fcall.cells : fcall.cells[i] # {}

\* a raw pixel buffer whose pixels all have the colour of its first pixel
Solid(source) ==
  /\ source.kind = "ImageData"
  /\ Len(source.data) = source.width * source.height * 4
  /\ Len(source.data) > 0
  /\ \A i \in 1..Len(source.data) :
       source.data[i] = source.data[((i - 1) % 4) + 1]

\* C27: converting a raw pixel buffer whose pixels all have one colour c,
\* every cell of the grid samples exactly c and every glyph is the glyph of
\* c's luminance, for every configured width or height, grids with more
\* columns or rows than the buffer included.
C27_SolidStaysSolid ==
  /\ Converted /\ Solid(last.source)
  /\ last.width * last.height <= MaxGridCells
  => LET d == last.source.data
         c == [r |-> d[1], g |-> d[2], b |-> d[3], a |-> d[4]]
         glyph == LuminanceToChar(CalculateLuminance(c.r, c.g, c.b),
                                  last.charset, last.cfg.inverted)
     IN /\ \A y \in 1..last.height : \A x \in 1..last.width :
             /\ CellColor(last, x, y) = c
             /\ Characters(last)[y][x] = glyph
        /\ last.cfg.colored
           => \A y \in 1..last.height : \A x \in 1..last.width :
                Colors(last)[1][y][x] = c

\* C29: a convertImage call that returns, made under a configuration that
\* validateConfig accepts on a source whose width and height are not 0,
\* yields a grid that is not empty: metadata.width >= 1, metadata.height
\* >= 1, characters holds at least one glyph and text is not ''.
C29_GridNonEmpty ==
  LET natural == ExtractPixelData(last.source, Undefined, Undefined)
  IN /\ Converted
     /\ ValidateConfig(last.cfg, last.charset) = NoError
     /\ natural.ok /\ natural.value.width > 0 /\ natural.value.height > 0
     => /\ Metadata(last).width >= 1
        /\ Metadata(last).height >= 1
        /\ last.width * last.height <= MaxGridCells
           => /\ GlyphCount(Characters(last)) >= 1
              /\ Text(last) # <<>>

\* a generateColorMap call that returned
Mapped == last.op = "generateColorMap" /\ last.status = "ok"

C26_CharsetFollowsConfig ==
  /\ gen = "live"
     => /\ ResolveCharset(config.charset).ok
        /\ ResolveCharset(config.charset).value = charset
        /\ ResolveCharset(ConfigCopy(config).val.charset).value = charset
  /\ Converted
     => Metadata(last).charset = ResolveCharset(last.cfg.charset).value

\* the responses posted while the handler ran for message number i
ResponsesTo(i) == {j \in DOMAIN outbox : outbox[j].to = i}

\* C30: once its handler has run for it, every message of type 'convert' or
\* 'updateConfig' the worker received has been answered by exactly one
\* response, of type 'result' or 'error', whatever other fields the message
\* carries, and the responses stand in the order in which their messages
\* were received.
C30_OneResponseInOrder ==
  /\ \A i \in 1..handled :
       inbox[i].type \in {"convert", "updateConfig"}
       => /\ Cardinality(ResponsesTo(i)) = 1
          /\ \A j \in ResponsesTo(i) : outbox[j].type \in {"result", "error"}
  /\ \A j, k \in DOMAIN outbox : j < k => outbox[j].to < outbox[k].to

====
